---------------------------- MODULE Spec2Model ----------------------------
(***************************************************************************)
(* release2gitee: mirroring of GitHub releases (the origin) to Gitee (the  *)
(* mirror).  The module models src/src/lib.rs: the sync pass               *)
(* sync_github_releases_to_gitee with its helpers, the two registries it   *)
(* talks to, and the local staging directory.                              *)
(*                                                                         *)
(* Text (String) is a sequence of tokens, a token being a TLA+ string: a   *)
(* tag "v0.9.2" is <<"v0", ".", "9", ".", "2">>, a body is a sequence of    *)
(* words and URL pieces.  Option<T> is a sequence of length at most one:   *)
(* None is <<>> and Some(x) is <<x>>.                                      *)
(***************************************************************************)
EXTENDS Integers, Sequences, FiniteSets, TLC

VARIABLES
    cli,              \* the parsed command line (model.rs Cli)
    github,           \* origin registry: its releases, oldest first (never written)
    gitee,            \* mirror registry: its releases, oldest first
    next_id,          \* mirror registry: the id the next created release gets
    fs,               \* staging directory: path -> content of the staged file
    pass,             \* number of the running (or last) pass
    pc,               \* position of the pass in sync_github_releases_to_gitee
    result,           \* "none" while the pass runs, then "ok" or "err"
    github_releases,  \* local of the pass: fetched (then filtered) origin list
    gitee_releases,   \* local of the pass: mirror list fetched at the start
    idx,              \* loop of step 4: position in github_releases (runs down)
    gitee_release,    \* local of sync_release: result of create-or-update
    diff_asserts,     \* local of sync_release: the asset diff
    k,                \* position in diff_asserts / in the pruner's list
    clean_list,       \* local of clean_oldest_gitee_releases: re-fetched list
    calls,            \* history: the remote calls issued so far, in order
    results,          \* history: the result of every finished pass
    fs0,              \* history: the staging directory when the pass started
    gitee0            \* history: the mirror when the pass started

vars == <<cli, github, gitee, next_id, fs, pass, pc, result,
          github_releases, gitee_releases, idx, gitee_release, diff_asserts,
          k, clean_list, calls, results, fs0, gitee0>>

(***************************************************************************)
(* Option and sequence helpers                                             *)
(***************************************************************************)
None == <<>>
Some(x) == <<x>>
is_some(o) == o # <<>>
is_none(o) == o = <<>>
unwrap(o) == o[1]
\* Option<String>::unwrap_or_default: the empty text for None
unwrap_or_default(o) == IF o = <<>> THEN <<>> ELSE o[1]

Range(s) == {s[i] : i \in 1..Len(s)}
Reverse(s) == [i \in 1..Len(s) |-> s[Len(s) + 1 - i]]
Take(s, n) == SubSeq(s, 1, IF n < Len(s) THEN n ELSE Len(s))


(***************************************************************************)
(* Bounds of the model                                                     *)
(***************************************************************************)
\* passes run one after the other against the same origin
MaxPass == 2
\* largest number a version component of a tag takes
MaxNumber == 130
\* size of the mirror that does not fit the page the list call asks for
BigMirror == 120

(***************************************************************************)
(* Program constants                                                       *)
(***************************************************************************)
\* gitee_releases asks for "per_page=100&page=1"
PerPage == 100

GITHUB_URL == "https://github.com/"
GITEE_URL == "https://gitee.com/"
LATEST_JSON == "latest.json"

(***************************************************************************)
(* The data the runs are drawn from                                        *)
(***************************************************************************)
OWNER == "hepengju"
REPO == "redis-me"

V090 == <<"v0", ".", "9", ".", "0">>
V092 == <<"v0", ".", "9", ".", "2">>
V100 == <<"v1", ".", "0", ".", "0">>
NIGHTLY == <<"nightly">>
\* the tags of tests::test_version, and two whose first part has two digits
V099 == <<"v0", ".", "9", ".", "9">>
V0911 == <<"v0", ".", "9", ".", "11">>
V900 == <<"v9", ".", "0", ".", "0">>
V1000 == <<"v10", ".", "0", ".", "0">>
BARE100 == <<"1", ".", "0", ".", "0">>
Tags == {V090, V092, V100, NIGHTLY}

APP_ZIP == "app.zip"
NOTES_TXT == "notes.txt"

\* what the origin serves for an asset of that name
FileBody(name) ==
    CASE name = LATEST_JSON -> <<"{", GITHUB_URL, OWNER, "/", REPO, "/app.zip", "}">>
      [] name = APP_ZIP -> <<"b1", "b2", "b3">>
      [] OTHER -> <<"t1", "t2">>

\* fs::metadata(..).len(): the bytes of a text.  The two hosts differ in
\* length, any other token counts for one byte
token_len(tok) ==
    CASE tok = GITHUB_URL -> 19 [] tok = GITEE_URL -> 18 [] OTHER -> 1

RECURSIVE file_len(_)
file_len(content) ==
    IF content = <<>> THEN 0
    ELSE token_len(Head(content)) + file_len(Tail(content))

\* a download URL is <<host, tag of the release, name of the asset>>
remote_body(url) == FileBody(url[3])

(***************************************************************************)
(* String::replace on texts: every non-overlapping occurrence of src,      *)
(* scanning from the left, becomes tar.                                    *)
(***************************************************************************)
StartsWith(content, src) ==
    /\ Len(src) <= Len(content)
    /\ SubSeq(content, 1, Len(src)) = src

RECURSIVE Replace(_, _, _)
Replace(content, src, tar) ==
    IF content = <<>> \/ src = <<>> THEN content
    ELSE IF StartsWith(content, src)
         THEN tar \o Replace(SubSeq(content, Len(src) + 1, Len(content)), src, tar)
         ELSE <<Head(content)>> \o Replace(Tail(content), src, tar)

\* "https://github.com/{owner}/{repo}" and "https://gitee.com/{owner}/{repo}"
GithubBase(c) == <<GITHUB_URL, c.github_owner, "/", c.github_repo>>
GiteeBase(c) == <<GITEE_URL, c.gitee_owner, "/", c.gitee_repo>>

replace_download_url(c, content) == Replace(content, GithubBase(c), GiteeBase(c))

replace_release_body_url(c, content) ==
    IF c.release_body_url_replace THEN replace_download_url(c, content)
    ELSE content

(***************************************************************************)
(* version_compare::compare, as lib.rs uses it on tag names.  A tag is     *)
(* split at its separators; a part that parses as a number is a Number     *)
(* part, any other part a Text part.  A tag with parts but no Number part  *)
(* is no version, and comparing it fails.                                  *)
(***************************************************************************)
Separators == {".", "-", "_", "+"}
NumberTokens == {ToString(n) : n \in 0..MaxNumber}
is_number(part) == part \in NumberTokens
number(part) == CHOOSE n \in 0..MaxNumber : ToString(n) = part
\* the text parts of the tags, in the order of str::cmp on their lower case
TextOrder == <<"nightly", "v0", "v1", "v10", "v9">>
text_rank(part) == CHOOSE i \in 1..Len(TextOrder) : TextOrder[i] = part

split_version_str(tag) == SelectSeq(tag, LAMBDA tok : tok \notin Separators)

\* Version::from: Some(parts), or None for a tag that is no version
version_from(tag) ==
    LET parts == split_version_str(tag)
    IN  IF parts # <<>> /\ \A i \in 1..Len(parts) : ~is_number(parts[i])
        THEN None
        ELSE Some(parts)

flip(c) == CASE c = "Lt" -> "Gt" [] c = "Gt" -> "Lt" [] OTHER -> c

\* one step of Version::compare_iter: "" when the two parts decide nothing
compare_part(lhs, rhs) ==
    IF is_number(lhs) /\ is_number(rhs)
    THEN (IF number(lhs) < number(rhs) THEN "Lt"
          ELSE IF number(lhs) > number(rhs) THEN "Gt" ELSE "")
    ELSE IF ~is_number(lhs) /\ ~is_number(rhs)
    THEN (IF text_rank(lhs) < text_rank(rhs) THEN "Lt"
          ELSE IF text_rank(lhs) > text_rank(rhs) THEN "Gt" ELSE "")
    ELSE ""

RECURSIVE compare_iter(_, _)
compare_iter(a, b) ==
    IF a = <<>>
    THEN (IF b = <<>> THEN "Eq" ELSE flip(compare_iter(b, a)))
    ELSE IF b = <<>>
    THEN (IF is_number(Head(a))
          THEN (IF number(Head(a)) = 0 THEN compare_iter(Tail(a), b) ELSE "Gt")
          ELSE "Lt")
    ELSE LET c == compare_part(Head(a), Head(b))
         IN  IF c # "" THEN c ELSE compare_iter(Tail(a), Tail(b))

\* compare(a, b): "Lt", "Eq" or "Gt", or "Err" when either is no version
compare(a, b) ==
    IF is_none(version_from(a)) \/ is_none(version_from(b)) THEN "Err"
    ELSE compare_iter(unwrap(version_from(a)), unwrap(version_from(b)))

(***************************************************************************)
(* Release lists                                                           *)
(***************************************************************************)
\* a variant of sort_by_key_id that keeps the order of the response
sort_by_key_id_unsorted(s) == s

\* releases.sort_by_key(|r| r.id): ascending by id
sort_by_key_id(s) == SortSeq(s, LAMBDA a, b : a.id < b.id)

get_tags(releases) == [i \in 1..Len(releases) |-> releases[i].tag_name]

(***************************************************************************)
(* The registries, as the program sees them through http.rs                *)
(***************************************************************************)
\* a variant of Payload that writes the assets too
Payload_with_assets(r) == r

\* what serde writes for a Release: every field but assets (skip_serializing)
Payload(r) ==
    [id |-> r.id, tag_name |-> r.tag_name, name |-> r.name, body |-> r.body,
     prerelease |-> r.prerelease, target_commitish |-> r.target_commitish]

NoPayload ==
    [id |-> 0, tag_name |-> <<>>, name |-> "", body |-> None,
     prerelease |-> FALSE, target_commitish |-> ""]

NoRelease ==
    [id |-> 0, tag_name |-> <<>>, name |-> "", body |-> None,
     prerelease |-> FALSE, target_commitish |-> "", assets |-> <<>>]

\* A registry keeps its releases in the order they were created in, which is
\* the order of their ids.  A list call with per_page = n and page = 1 returns
\* its n most recent releases,
Page(registry, n) ==
    IF Len(registry) <= n THEN registry
    ELSE SubSeq(registry, Len(registry) - n + 1, Len(registry))

\* in an order of the registry's choosing
Responses(page) == {page, Reverse(page)}

has_release(registry, id) == \E i \in 1..Len(registry) : registry[i].id = id

\* a variant of gitee_created that hands back the release with the assets of
\* the origin release it was made from
gitee_created_with_origin_assets(p) ==
    [id |-> next_id, tag_name |-> p.tag_name, name |-> p.name, body |-> p.body,
     prerelease |-> p.prerelease, target_commitish |-> p.target_commitish,
     assets |-> github_releases[idx].assets]

\* POST .../releases: the mirror stores the release under a fresh id
gitee_created(p) ==
    [id |-> next_id, tag_name |-> p.tag_name, name |-> p.name, body |-> p.body,
     prerelease |-> p.prerelease, target_commitish |-> p.target_commitish,
     assets |-> <<>>]

\* a variant of gitee_patched in which the patched release loses its assets
gitee_patched_without_assets(registry, id, p) ==
    [i \in 1..Len(registry) |->
        IF registry[i].id = id
        THEN [registry[i] EXCEPT !.name = p.name, !.body = p.body,
                                 !.prerelease = p.prerelease,
                                 !.target_commitish = p.target_commitish,
                                 !.assets = <<>>]
        ELSE registry[i]]

\* PATCH .../releases/{id}: the mirror takes the mutable fields of the payload
gitee_patched(registry, id, p) ==
    [i \in 1..Len(registry) |->
        IF registry[i].id = id
        THEN [registry[i] EXCEPT !.name = p.name, !.body = p.body,
                                 !.prerelease = p.prerelease,
                                 !.target_commitish = p.target_commitish]
        ELSE registry[i]]

\* POST .../releases/{id}/attach_files: the file becomes an asset of the
\* release, named by the last component of the file name sent
gitee_attached(registry, id, name, content) ==
    [i \in 1..Len(registry) |->
        IF registry[i].id = id
        THEN [registry[i] EXCEPT !.assets = Append(@,
                 [name |-> name, size |-> Some(file_len(content)),
                  browser_download_url |-> <<"gitee", registry[i].tag_name, name>>])]
        ELSE registry[i]]

\* DELETE .../releases/{id}
gitee_deleted(registry, id) == SelectSeq(registry, LAMBDA r : r.id # id)

\* the mirror refuses a release without body text (comment at lib.rs:242)
gitee_accepts(p) == unwrap_or_default(p.body) # <<>>

(***************************************************************************)
(* The remote calls a pass issues, recorded in order                       *)
(***************************************************************************)
\* a variant of api_of in which the delete is sent to the API of the origin
api_of_delete_at_origin(op) ==
    IF op \in {"list_github", "delete"} THEN "github"
    ELSE IF op = "download" THEN ""
    ELSE "gitee"

\* the API the URL of a call is built from: GITHUB_API_URL in github_releases
\* (line 48), GITEE_API_URL in every other function (lines 76, 219, 267, 278,
\* 361); a download takes its URL from the asset (line 325)
api_of(op) ==
    IF op = "list_github" THEN "github"
    ELSE IF op = "download" THEN ""
    ELSE "gitee"

\* op: the operation; tag: the release it is for; id: the mirror release it is
\* addressed to (for a create, the id the mirror answers); asset: the file
\* transferred; payload: the JSON sent; ok: whether the call succeeded; host:
\* the registry the URL of the call names
Call(op, tag, id, asset, payload, ok) ==
    [pass |-> pass, op |-> op, tag |-> tag, id |-> id, asset |-> asset,
     payload |-> payload, ok |-> ok, host |-> api_of(op)]

\* a variant of Finish that logs the error and returns Ok(())
Finish_swallows(res) ==
    /\ pc' = "done"
    /\ result' = "ok"
    /\ results' = Append(results, "ok")

\* the pass ends: with Ok(()) or with the error the ? operator propagates
Finish(res) ==
    /\ pc' = "done"
    /\ result' = res
    /\ results' = Append(results, res)

(***************************************************************************)
(* Step 1: github_releases                                                 *)
(***************************************************************************)
\* a variant of github_sorted that leaves the bodies as they are
github_sorted_raw_body(response) == Reverse(sort_by_key_id(response))

\* lines 51-60: sort by id, newest first, and give an empty body the tag name
github_sorted(response) ==
    LET releases == Reverse(sort_by_key_id(response))
    IN  [i \in 1..Len(releases) |->
            IF unwrap_or_default(releases[i].body) = <<>>
            THEN [releases[i] EXCEPT !.body = Some(releases[i].tag_name)]
            ELSE releases[i]]

GithubReleases ==
    /\ pc = "github_releases"
    /\ \E ok \in BOOLEAN :
       \E response \in Responses(Page(github, cli.github_latest_release_count)) :
          /\ calls' = Append(calls, Call("list_github", <<>>, 0, "", NoPayload, ok))
          /\ IF ok
             THEN /\ github_releases' = github_sorted(response)
                  /\ pc' = "gitee_releases"
                  /\ UNCHANGED <<result, results>>
             ELSE /\ Finish("err")
                  /\ UNCHANGED github_releases
    /\ UNCHANGED <<cli, github, gitee, next_id, fs, pass, gitee_releases,
                   idx, gitee_release, diff_asserts, k, clean_list, fs0, gitee0>>

(***************************************************************************)
(* Step 2: gitee_releases                                                  *)
(***************************************************************************)
\* a variant of gitee_sorted that leaves the list oldest first
gitee_sorted_ascending(response) == sort_by_key_id(response)

\* lines 79-81: sort by id, newest first
gitee_sorted(response) == Reverse(sort_by_key_id(response))

GiteeReleases ==
    /\ pc = "gitee_releases"
    /\ \E ok \in BOOLEAN :
       \E response \in Responses(Page(gitee, PerPage)) :
          /\ calls' = Append(calls, Call("list_gitee", <<>>, 0, "", NoPayload, ok))
          /\ IF ok
             THEN /\ gitee_releases' = gitee_sorted(response)
                  /\ pc' = "filter"
                  /\ UNCHANGED <<result, results>>
             ELSE /\ Finish("err")
                  /\ UNCHANGED gitee_releases
    /\ UNCHANGED <<cli, github, gitee, next_id, fs, pass, github_releases,
                   idx, gitee_release, diff_asserts, k, clean_list, fs0, gitee0>>

(***************************************************************************)
(* Step 3: filter_github_releases                                          *)
(***************************************************************************)
\* Iterator::max_by with compare(a, b).unwrap_or(Eq): of two tags that do not
\* compare Greater the later one is kept
RECURSIVE max_by(_, _)
max_by(acc, tags) ==
    IF tags = <<>> THEN acc
    ELSE max_by(IF compare(acc, Head(tags)) = "Gt" THEN acc ELSE Head(tags),
                Tail(tags))

max_gitee_tag(mirror) == max_by(mirror[1].tag_name, Tail(get_tags(mirror)))

\* a variant of filter_keeps that drops a release it cannot compare
filter_keeps_comparable(max_tag, release) ==
    LET ord == compare(max_tag, release.tag_name)
    IN  IF ord = "Err" THEN FALSE
        ELSE ~(ord = "Gt" \/ ord = "Eq")

\* a variant of filter_keeps that drops only the tags below the maximum
filter_keeps_equal(max_tag, release) ==
    LET ord == compare(max_tag, release.tag_name)
    IN  IF ord = "Err" THEN TRUE
        ELSE ~(ord = "Gt")

\* the closure of lines 159-178: FALSE drops the release
filter_keeps(max_tag, release) ==
    LET ord == compare(max_tag, release.tag_name)
    IN  IF ord = "Err" THEN TRUE
        ELSE ~(ord = "Gt" \/ ord = "Eq")

filter_github_releases(c, mirror, origin) ==
    LET retain == IF c.gitee_retain_release_count > Len(origin)
                  THEN Take(origin, c.gitee_retain_release_count)
                  ELSE origin
    IN  IF c.ignore_lt_gitee_max_version /\ mirror # <<>>
        THEN LET max_tag == max_gitee_tag(mirror)
             IN  SelectSeq(retain, LAMBDA r : filter_keeps(max_tag, r))
        ELSE retain

Filter ==
    /\ pc = "filter"
    /\ LET selected == filter_github_releases(cli, gitee_releases, github_releases)
       IN  /\ github_releases' = selected
           /\ idx' = Len(selected)
           /\ pc' = IF selected = <<>> THEN "clean" ELSE "sync"
    /\ UNCHANGED <<cli, github, gitee, next_id, fs, pass, result,
                   gitee_releases, gitee_release, diff_asserts, k, clean_list,
                   calls, results, fs0, gitee0>>

(***************************************************************************)
(* Step 4: the loop over the selected releases, oldest first, and          *)
(* sync_release for each                                                   *)
(***************************************************************************)
\* a variant of current_release in which the upload loop works for the
\* release the pass started with
current_release_stale ==
    github_releases[IF pc = "upload" THEN Len(github_releases) ELSE idx]

\* a variant of current_release that walks the list from its head
current_release_forward == github_releases[Len(github_releases) + 1 - idx]

\* github_releases.iter().rev(): idx runs from the end of the list down to 1
current_release == github_releases[idx]

\* a variant of mirror_matches that pairs the releases by their ids
mirror_matches_by_id(gr, release) == gr.id = release.id

\* lines 33-35: gitee_releases.iter().find(|gr| gr.tag_name == release.tag_name)
mirror_matches(gr, release) == gr.tag_name = release.tag_name

find_gitee_release(mirror, release) ==
    LET hits == {i \in 1..Len(mirror) : mirror_matches(mirror[i], release)}
    IN  IF hits = {} THEN None
        ELSE Some(mirror[CHOOSE i \in hits : \A j \in hits : i <= j])

\* a variant of needs_update that compares target_commitish too
needs_update_commitish(c, release, er) ==
    \/ release.name # er.name
    \/ replace_release_body_url(c, unwrap_or_default(release.body))
          # unwrap_or_default(er.body)
    \/ release.prerelease # er.prerelease
    \/ release.target_commitish # er.target_commitish

\* lines 236-238: the fields whose difference triggers an update
needs_update(c, release, er) ==
    \/ release.name # er.name
    \/ replace_release_body_url(c, unwrap_or_default(release.body))
          # unwrap_or_default(er.body)
    \/ release.prerelease # er.prerelease

\* a variant of new_er that leaves the name of the mirror release as it is
new_er_keeps_name(release, er) ==
    [id |-> er.id, tag_name |-> er.tag_name, assets |-> er.assets,
     name |-> er.name, body |-> release.body,
     prerelease |-> release.prerelease,
     target_commitish |-> release.target_commitish]

\* lines 243-251: the value sent to the mirror and returned to sync_release
new_er(release, er) ==
    [id |-> er.id, tag_name |-> er.tag_name, assets |-> er.assets,
     name |-> release.name, body |-> release.body,
     prerelease |-> release.prerelease,
     target_commitish |-> release.target_commitish]

\* the release is done: on to the next older position, or to the pruner
NextRelease ==
    /\ idx' = idx - 1
    /\ pc' = IF idx = 1 THEN "clean" ELSE "sync"

\* gitee_release_create (line 231): the release has no counterpart
Create ==
    /\ pc = "sync"
    /\ is_none(find_gitee_release(gitee_releases, current_release))
    /\ LET p == Payload(current_release)
       IN  \E answer \in BOOLEAN :
           LET ok == answer /\ gitee_accepts(p)
           IN  /\ calls' = Append(calls, Call("create", p.tag_name,
                                              IF ok THEN next_id ELSE 0, "", p, ok))
               /\ IF ok
                  THEN /\ gitee' = Append(gitee, gitee_created(p))
                       /\ next_id' = next_id + 1
                       /\ gitee_release' = gitee_created(p)
                       /\ pc' = "diff"
                       /\ UNCHANGED <<result, results>>
                  ELSE /\ Finish("err")
                       /\ UNCHANGED <<gitee, next_id, gitee_release>>
    /\ UNCHANGED <<cli, github, fs, pass, github_releases, gitee_releases,
                   idx, diff_asserts, k, clean_list, fs0, gitee0>>

\* gitee_release_update (lines 242-253): the counterpart differs
Update ==
    /\ pc = "sync"
    /\ is_some(find_gitee_release(gitee_releases, current_release))
    /\ LET er == unwrap(find_gitee_release(gitee_releases, current_release))
           sent == new_er(current_release, er)
       IN  /\ needs_update(cli, current_release, er)
           /\ \E answer \in BOOLEAN :
              LET ok == /\ answer
                        /\ gitee_accepts(Payload(sent))
                        /\ has_release(gitee, sent.id)
              IN  /\ calls' = Append(calls, Call("update", current_release.tag_name,
                                                 sent.id, "", Payload(sent), ok))
                  /\ IF ok
                     THEN /\ gitee' = gitee_patched(gitee, sent.id, Payload(sent))
                          /\ gitee_release' = sent
                          /\ pc' = "diff"
                          /\ UNCHANGED <<result, results>>
                     ELSE /\ Finish("err")
                          /\ UNCHANGED <<gitee, gitee_release>>
    /\ UNCHANGED <<cli, github, next_id, fs, pass, github_releases,
                   gitee_releases, idx, diff_asserts, k, clean_list, fs0, gitee0>>

\* lines 254-259: name, body and prerelease are the same, nothing is sent
Unchanged ==
    /\ pc = "sync"
    /\ is_some(find_gitee_release(gitee_releases, current_release))
    /\ LET er == unwrap(find_gitee_release(gitee_releases, current_release))
       IN  /\ ~needs_update(cli, current_release, er)
           /\ gitee_release' = er
    /\ pc' = "diff"
    /\ UNCHANGED <<cli, github, gitee, next_id, fs, pass, result,
                   github_releases, gitee_releases, idx, diff_asserts, k,
                   clean_list, calls, results, fs0, gitee0>>

\* the loop of lines 289-297 over the origin assets
RECURSIVE diff_assets(_, _)
diff_assets(assets, mirror_release) ==
    IF assets = <<>> THEN <<>>
    ELSE LET asset == Head(assets)
             rest == diff_assets(Tail(assets), mirror_release)
         IN  IF ~\E i \in 1..Len(mirror_release.assets) :
                    mirror_release.assets[i].name = asset.name
             THEN <<asset>> \o rest
             ELSE rest

\* a variant of release_asserts_diff that takes an asset for present only when
\* the name and the size are the same
release_asserts_diff_by_size(release, mirror_release) ==
    SelectSeq(release.assets,
              LAMBDA a : ~\E i \in 1..Len(mirror_release.assets) :
                            /\ mirror_release.assets[i].name = a.name
                            /\ mirror_release.assets[i].size = a.size)

\* release_asserts_diff: the origin assets no mirror asset has the name of
release_asserts_diff(release, mirror_release) ==
    diff_assets(release.assets, mirror_release)

\* lines 201-206 of sync_release
Diff ==
    /\ pc = "diff"
    /\ LET d == release_asserts_diff(current_release, gitee_release)
       IN  /\ diff_asserts' = d
           /\ IF d = <<>>
              THEN /\ NextRelease
                   /\ UNCHANGED k
              ELSE /\ pc' = "download"
                   /\ k' = 1
                   /\ UNCHANGED idx
    /\ UNCHANGED <<cli, github, gitee, next_id, fs, pass, result,
                   github_releases, gitee_releases, gitee_release, clean_list,
                   calls, results, fs0, gitee0>>

(***************************************************************************)
(* download_release_asserts and upload_release_asserts                     *)
(***************************************************************************)
\* tmp_dir_repo_tag(cli, release).join(asset.name):
\* {temp_dir}/{github_repo}/{tag_name}/{asset name}
file_path(c, release, asset) == <<c.github_repo, release.tag_name, asset.name>>

exists(files, path) == path \in DOMAIN files

\* a variant of write that opens the file for appending
write_appending(files, path, content) ==
    [q \in DOMAIN files \cup {path} |->
        IF q # path THEN files[q]
        ELSE IF path \in DOMAIN files THEN files[path] \o content ELSE content]

\* File::create(path) and the writes of the chunks: the file holds the content
write(files, path, content) ==
    [q \in DOMAIN files \cup {path} |-> IF q = path THEN content ELSE files[q]]

\* a variant of skip_download that skips on a file of another size
skip_download_other_size(files, path, asset) ==
    /\ exists(files, path)
    /\ is_some(asset.size)
    /\ file_len(files[path]) # unwrap(asset.size)

\* a variant of skip_download that skips whenever the staged file is there
skip_download_if_exists(files, path, asset) == exists(files, path)

\* lines 313-323: the staged file is there and has the declared size
skip_download(files, path, asset) ==
    /\ exists(files, path)
    /\ is_some(asset.size)
    /\ file_len(files[path]) = unwrap(asset.size)

\* a variant of downloaded_content that rewrites latest.json without the flag
downloaded_content_unflagged(c, asset, body) ==
    IF asset.name = LATEST_JSON
    THEN replace_download_url(c, body)
    ELSE body

\* lines 328-333: what the staged file holds after a successful download
downloaded_content(c, asset, body) ==
    IF c.latest_json_url_replace /\ asset.name = LATEST_JSON
    THEN replace_download_url(c, body)
    ELSE body

\* a variant of NextDownload that sends every asset right after its download
NextDownload_then_upload ==
    /\ k' = k
    /\ pc' = "upload"

\* the download loop moves on: to the next asset, or to the upload loop
NextDownload ==
    /\ k' = IF k = Len(diff_asserts) THEN 1 ELSE k + 1
    /\ pc' = IF k = Len(diff_asserts) THEN "upload" ELSE "download"

\* lines 318-319: "file exists and size is some, skip download"
SkipDownload ==
    /\ pc = "download"
    /\ skip_download(fs, file_path(cli, current_release, diff_asserts[k]),
                     diff_asserts[k])
    /\ NextDownload
    /\ UNCHANGED <<cli, github, gitee, next_id, fs, pass, result,
                   github_releases, gitee_releases, idx, gitee_release,
                   diff_asserts, clean_list, calls, results, fs0, gitee0>>

\* a variant of Download that logs a non-success answer and goes on with the
\* next asset
Download_logs_failure ==
    /\ pc = "download"
    /\ LET asset == diff_asserts[k]
           path == file_path(cli, current_release, asset)
           body == remote_body(asset.browser_download_url)
       IN  /\ ~skip_download(fs, path, asset)
           /\ \E outcome \in {"ok", "status"} :
              /\ calls' = Append(calls,
                    [Call("download", current_release.tag_name, 0,
                          asset.name, NoPayload, outcome = "ok")
                        EXCEPT !.host = asset.browser_download_url[1]])
              /\ fs' = IF outcome = "ok"
                       THEN write(fs, path, downloaded_content(cli, asset, body))
                       ELSE fs
              /\ NextDownload
              /\ UNCHANGED <<result, results>>
    /\ UNCHANGED <<cli, github, gitee, next_id, pass, github_releases,
                   gitee_releases, idx, gitee_release, diff_asserts, clean_list,
                   fs0, gitee0>>

\* http::download: "ok" writes the whole body; "status" is a non-success
\* answer, nothing is written; "io" is a failure while the body is streamed,
\* the file created at line 109 keeps what was written until then
Download ==
    /\ pc = "download"
    /\ LET asset == diff_asserts[k]
           path == file_path(cli, current_release, asset)
           body == remote_body(asset.browser_download_url)
       IN  /\ ~skip_download(fs, path, asset)
           /\ \E outcome \in {"ok", "status", "io"} :
              /\ calls' = Append(calls,
                    [Call("download", current_release.tag_name, 0,
                          asset.name, NoPayload, outcome = "ok")
                        EXCEPT !.host = asset.browser_download_url[1]])
              /\ CASE outcome = "ok" ->
                       /\ fs' = write(fs, path, downloaded_content(cli, asset, body))
                       /\ NextDownload
                       /\ UNCHANGED <<result, results>>
                   [] outcome = "status" ->
                       /\ Finish("err")
                       /\ UNCHANGED <<fs, k>>
                   [] outcome = "io" ->
                       /\ \E n \in 0..(Len(body) - 1) :
                             fs' = write(fs, path, SubSeq(body, 1, n))
                       /\ Finish("err")
                       /\ UNCHANGED k
    /\ UNCHANGED <<cli, github, gitee, next_id, pass, github_releases,
                   gitee_releases, idx, gitee_release, diff_asserts, clean_list,
                   fs0, gitee0>>

\* the upload loop moves on: to the next asset, or to the next release
NextUpload ==
    IF k = Len(diff_asserts)
    THEN NextRelease /\ UNCHANGED k
    ELSE k' = k + 1 /\ UNCHANGED <<pc, idx>>

\* a variant of upload_target that takes the id of the origin release
upload_target_origin(release, mirror_release) == release.id

\* the release id upload_release_asserts puts into the attach URL (line 361)
upload_target(release, mirror_release) == mirror_release.id

\* a variant of after_upload that removes the file it has sent
after_upload_removes(files, path) ==
    [q \in DOMAIN files \ {path} |-> files[q]]

\* lines 363-364: after http::upload the loop goes on; the staged file stays
after_upload(files, path) == files

\* one round of the loop of lines 348-364: a missing staged file is logged and
\* passed over, any other is sent by http::upload to
\* .../releases/{id}/attach_files
Upload ==
    /\ pc = "upload"
    /\ LET asset == diff_asserts[k]
           path == file_path(cli, current_release, asset)
           id == upload_target(current_release, gitee_release)
       IN  IF ~exists(fs, path)
           THEN /\ NextUpload
                /\ UNCHANGED <<gitee, fs, calls, result, results>>
           ELSE \E answer \in BOOLEAN :
                LET ok == answer /\ has_release(gitee, id)
                IN  /\ calls' = Append(calls, Call("upload", current_release.tag_name,
                                                   id, asset.name, NoPayload, ok))
                    /\ IF ok
                       THEN /\ gitee' = gitee_attached(gitee, id, asset.name, fs[path])
                            /\ fs' = after_upload(fs, path)
                            /\ NextUpload
                            /\ UNCHANGED <<result, results>>
                       ELSE /\ Finish("err")
                            /\ UNCHANGED <<gitee, fs, idx, k>>
    /\ UNCHANGED <<cli, github, next_id, pass, github_releases,
                   gitee_releases, gitee_release, diff_asserts, clean_list,
                   fs0, gitee0>>

(***************************************************************************)
(* Step 5: clean_oldest_gitee_releases                                     *)
(***************************************************************************)
\* a variant of clean_releases that prunes the list fetched in step 2
clean_releases_stale(response) == gitee_releases

\* line 107: the pruner fetches the list of the mirror again
clean_releases(response) == gitee_sorted(response)

\* line 120: the releases of the list that are kept
skip_count(c) == c.gitee_retain_release_count

\* lines 107-120: the list is fetched again; nothing to do, or the loop starts
Clean ==
    /\ pc = "clean"
    /\ \E ok \in BOOLEAN :
       \E response \in Responses(Page(gitee, PerPage)) :
          /\ calls' = Append(calls, Call("list_gitee", <<>>, 0, "", NoPayload, ok))
          /\ IF ~ok
             THEN /\ Finish("err")
                  /\ UNCHANGED <<clean_list, k>>
             ELSE /\ clean_list' = clean_releases(response)
                  /\ IF cli.gitee_retain_release_count >= Len(clean_releases(response))
                     THEN /\ Finish("ok")
                          /\ UNCHANGED k
                     ELSE /\ k' = skip_count(cli) + 1
                          /\ pc' = "delete"
                          /\ UNCHANGED <<result, results>>
    /\ UNCHANGED <<cli, github, gitee, next_id, fs, pass,
                   github_releases, gitee_releases, idx, gitee_release,
                   diff_asserts, fs0, gitee0>>

\* a variant of Delete that logs a failed delete and goes on with the next
Delete_continues ==
    /\ pc = "delete"
    /\ LET release == clean_list[k]
       IN  \E answer \in BOOLEAN :
           LET ok == answer /\ has_release(gitee, release.id)
           IN  /\ calls' = Append(calls, Call("delete", release.tag_name, release.id,
                                              "", NoPayload, ok))
               /\ gitee' = IF ok THEN gitee_deleted(gitee, release.id) ELSE gitee
               /\ IF k = Len(clean_list)
                  THEN Finish("ok") /\ UNCHANGED k
                  ELSE k' = k + 1 /\ UNCHANGED <<pc, result, results>>
    /\ UNCHANGED <<cli, github, next_id, fs, pass, github_releases,
                   gitee_releases, idx, gitee_release, diff_asserts, clean_list,
                   fs0, gitee0>>

\* lines 121-124: gitee_release_delete of the next release beyond the kept ones
Delete ==
    /\ pc = "delete"
    /\ LET release == clean_list[k]
       IN  \E answer \in BOOLEAN :
           LET ok == answer /\ has_release(gitee, release.id)
           IN  /\ calls' = Append(calls, Call("delete", release.tag_name, release.id,
                                              "", NoPayload, ok))
               /\ IF ok
                  THEN /\ gitee' = gitee_deleted(gitee, release.id)
                       /\ IF k = Len(clean_list)
                          THEN Finish("ok") /\ UNCHANGED k
                          ELSE k' = k + 1 /\ UNCHANGED <<pc, result, results>>
                  ELSE /\ Finish("err")
                       /\ UNCHANGED <<gitee, k>>
    /\ UNCHANGED <<cli, github, next_id, fs, pass, github_releases,
                   gitee_releases, idx, gitee_release, diff_asserts, clean_list,
                   fs0, gitee0>>

(***************************************************************************)
(* The program is run again, against the same origin                       *)
(***************************************************************************)
NextPass ==
    /\ pc = "done"
    /\ pass < MaxPass
    /\ pass' = pass + 1
    /\ pc' = "github_releases"
    /\ result' = "none"
    /\ github_releases' = <<>>
    /\ gitee_releases' = <<>>
    /\ idx' = 0
    /\ gitee_release' = NoRelease
    /\ diff_asserts' = <<>>
    /\ k' = 0
    /\ clean_list' = <<>>
    /\ fs0' = fs
    /\ gitee0' = gitee
    /\ UNCHANGED <<cli, github, gitee, next_id, fs, calls, results>>

Next ==
    \/ GithubReleases
    \/ GiteeReleases
    \/ Filter
    \/ Create
    \/ Update
    \/ Unchanged
    \/ Diff
    \/ SkipDownload
    \/ Download
    \/ Upload
    \/ Clean
    \/ Delete
    \/ NextPass

(***************************************************************************)
(* Initial states: a command line, the two registries and the staging      *)
(* directory before the first pass                                         *)
(***************************************************************************)
\* largest --github-latest-release-count, --gitee-retain-release-count and
\* size of the mirror the runs start from
MaxFetch == 2
MaxRetain == 3
MaxMirror == 3

Cli(fetch, retain, ignore, body_replace, latest_replace) ==
    [github_owner |-> OWNER, github_repo |-> REPO,
     gitee_owner |-> OWNER, gitee_repo |-> REPO,
     github_latest_release_count |-> fetch,
     gitee_retain_release_count |-> retain,
     ignore_lt_gitee_max_version |-> ignore,
     release_body_url_replace |-> body_replace,
     latest_json_url_replace |-> latest_replace]

\* GitHub reports the size of every asset; serde reads a missing one as None
OriginAsset(tag, name) ==
    [name |-> name,
     size |-> IF name = NOTES_TXT THEN None ELSE Some(file_len(FileBody(name))),
     browser_download_url |-> <<"github", tag, name>>]

OriginId(tag) ==
    CASE tag = V090 -> 11 [] tag = V092 -> 12 [] tag = V100 -> 13 [] OTHER -> 14

ReleaseName(tag) ==
    CASE tag = V090 -> "Release 0.9.0" [] tag = V092 -> "Release 0.9.2"
      [] tag = V100 -> "Release 1.0.0" [] tag = NIGHTLY -> "Nightly build"
      [] OTHER -> "Release"

Origin(tag, body, prerelease, names) ==
    [id |-> OriginId(tag), tag_name |-> tag, name |-> ReleaseName(tag),
     body |-> body, prerelease |-> prerelease, target_commitish |-> "master",
     assets |-> [i \in 1..Len(names) |-> OriginAsset(tag, names[i])]]

\* an asset the mirror holds already: its size and URL are the mirror's own
MirrorAsset(tag, name) ==
    [name |-> name, size |-> Some(1), browser_download_url |-> <<"gitee", tag, name>>]

Mirror(id, tag, name, body, prerelease, names) ==
    [id |-> id, tag_name |-> tag, name |-> name, body |-> body,
     prerelease |-> prerelease, target_commitish |-> "0a1b2c3",
     assets |-> [i \in 1..Len(names) |-> MirrorAsset(tag, names[i])]]

PlainBody == Some(<<"notes">>)
GithubUrlBody == Some(<<"see", GITHUB_URL, OWNER, "/", REPO, "/releases">>)
GiteeUrlBody == Some(<<"see", GITEE_URL, OWNER, "/", REPO, "/releases">>)

EmptyFs == [path \in {} |-> <<>>]

World(c, origin, mirror, files) ==
    [cli |-> c, github |-> origin, gitee |-> mirror, fs |-> files]

\* one release, with and without counterpart: name, body and prerelease vary
MetaWorlds ==
    {World(Cli(1, 1, ignore, body_replace, TRUE),
           <<Origin(V100, body, FALSE, <<>>)>>, mirror, EmptyFs) :
        ignore \in BOOLEAN, body_replace \in BOOLEAN,
        body \in {None, Some(<<>>), PlainBody, GithubUrlBody},
        mirror \in {<<>>} \cup
            {<<Mirror(1, V100, name, mbody, prerelease, <<>>)>> :
                name \in {ReleaseName(V100), "old name"},
                mbody \in {None, Some(V100), PlainBody, GithubUrlBody, GiteeUrlBody},
                prerelease \in BOOLEAN}}

\* the staged files a run may find: whole, or cut short by a failed download
StagedFiles(tag, names) ==
    LET paths == {<<REPO, tag, names[i]>> : i \in 1..Len(names)}
        contents == UNION {{FileBody(p[3]), Take(FileBody(p[3]), 1)} : p \in paths}
    IN  UNION {{f \in [some -> contents] :
                   \A p \in some : f[p] \in {FileBody(p[3]), Take(FileBody(p[3]), 1)}} :
               some \in SUBSET paths}

\* one release and its assets: on the mirror or not, staged or not
AssetWorlds ==
    {World(Cli(1, 1, FALSE, TRUE, latest_replace),
           <<Origin(V100, PlainBody, FALSE, names)>>, mirror, files) :
        latest_replace \in BOOLEAN,
        names \in {<<APP_ZIP>>, <<APP_ZIP, LATEST_JSON>>, <<NOTES_TXT, APP_ZIP>>},
        mirror \in {<<>>,
                    <<Mirror(1, V100, ReleaseName(V100), PlainBody, FALSE, <<>>)>>,
                    <<Mirror(1, V100, ReleaseName(V100), PlainBody, FALSE, <<APP_ZIP>>)>>,
                    <<Mirror(1, V100, "old name", PlainBody, TRUE, <<APP_ZIP>>)>>},
        files \in UNION {StagedFiles(V100, n) :
                     n \in {<<APP_ZIP>>, <<APP_ZIP, LATEST_JSON>>, <<NOTES_TXT, APP_ZIP>>}}}

\* the mirrors of at most MaxMirror releases: ids 1, 2, ... given to tags in any order
Arrangements ==
    {s \in UNION {[1..n -> Tags] : n \in 0..MaxMirror} :
        \A i, j \in 1..Len(s) : i # j => s[i] # s[j]}

SimpleMirror(s) ==
    [i \in 1..Len(s) |-> Mirror(i, s[i], ReleaseName(s[i]), PlainBody, FALSE, <<>>)]

\* the origin that holds releases of these tags, in the order of OriginId
SimpleOrigin(tags) ==
    LET held == SelectSeq(<<V090, V092, V100, NIGHTLY>>, LAMBDA tag : tag \in tags)
    IN  [i \in 1..Len(held) |-> Origin(held[i], PlainBody, FALSE, <<>>)]

\* several releases: the version filter
FilterWorlds ==
    {World(Cli(MaxFetch + 1, MaxRetain, ignore, TRUE, TRUE),
           SimpleOrigin(tags), SimpleMirror(s), EmptyFs) :
        ignore \in BOOLEAN,
        tags \in {{V090, V092, V100}, {V092, V100, NIGHTLY}, {V100}, {}},
        s \in Arrangements}

\* several releases: the fetch count, the retain count and the pruner
RetainWorlds ==
    {World(Cli(fetch, retain, FALSE, TRUE, TRUE),
           SimpleOrigin(tags), SimpleMirror(s), EmptyFs) :
        fetch \in 1..MaxFetch, retain \in 0..MaxRetain,
        tags \in {{V100}, {V092, V100}},
        s \in {a \in Arrangements : \A i \in 1..Len(a) :
                  \A j \in 1..Len(a) : i < j => OriginId(a[i]) < OriginId(a[j])}}

\* a mirror of more releases than the list call returns
BigWorlds ==
    {World(Cli(1, retain, FALSE, TRUE, TRUE), SimpleOrigin(tags),
           [i \in 1..BigMirror |->
               Mirror(i, <<"v0", ".", "0", ".", ToString(i)>>, "old release",
                      PlainBody, FALSE, <<>>)],
           EmptyFs) :
        retain \in {PerPage - 1, PerPage}, tags \in {{}, {V100}}}

\* one or two releases with assets, nothing staged: transfers, their failures
\* and the pass that follows
TransferWorlds ==
    {World(Cli(MaxFetch, MaxRetain, ignore, TRUE, TRUE), origin, mirror, EmptyFs) :
        ignore \in BOOLEAN,
        origin \in {<<Origin(V100, PlainBody, FALSE, <<APP_ZIP, LATEST_JSON>>)>>,
                    <<Origin(V092, PlainBody, FALSE, <<APP_ZIP>>),
                      Origin(V100, PlainBody, FALSE, <<APP_ZIP, LATEST_JSON>>)>>},
        mirror \in {<<>>, SimpleMirror(<<V090>>)}}

\* one release on each side: the comparison of two tags by the version filter
VersionWorlds ==
    {World(Cli(1, MaxRetain, TRUE, TRUE, TRUE),
           <<Origin(pair[2], PlainBody, FALSE, <<>>)>>, SimpleMirror(<<pair[1]>>),
           EmptyFs) :
        pair \in {<<V090, V099>>, <<V099, V0911>>, <<V0911, V099>>,
                  <<V100, BARE100>>, <<BARE100, V100>>,
                  <<V900, V1000>>, <<V1000, V900>>}}

\* a mirror that is full: the release the pass creates or updates, and fills,
\* makes the pruner delete
FullMirrorWorlds ==
    {World(Cli(1, 1, FALSE, TRUE, TRUE),
           <<Origin(V100, PlainBody, FALSE, <<APP_ZIP>>)>>, mirror, EmptyFs) :
        mirror \in {SimpleMirror(<<V090>>), SimpleMirror(<<V092>>),
                    <<Mirror(1, V100, "old name", PlainBody, FALSE, <<>>),
                      Mirror(2, V090, ReleaseName(V090), PlainBody, FALSE, <<>>)>>}}

Worlds ==
    MetaWorlds \cup AssetWorlds \cup FilterWorlds \cup RetainWorlds \cup BigWorlds
        \cup TransferWorlds \cup VersionWorlds \cup FullMirrorWorlds

Init ==
    \E w \in Worlds :
        /\ cli = w.cli
        /\ github = w.github
        /\ gitee = w.gitee
        /\ next_id = Len(w.gitee) + 1
        /\ fs = w.fs
        /\ fs0 = w.fs
        /\ gitee0 = w.gitee
    /\ pass = 1
    /\ pc = "github_releases"
    /\ result = "none"
    /\ github_releases = <<>>
    /\ gitee_releases = <<>>
    /\ idx = 0
    /\ gitee_release = NoRelease
    /\ diff_asserts = <<>>
    /\ k = 0
    /\ clean_list = <<>>
    /\ calls = <<>>
    /\ results = <<>>

Spec == Init /\ [][Next]_vars

\* a step of the running pass: every action but the start of another run
PassStep ==
    \/ GithubReleases
    \/ GiteeReleases
    \/ Filter
    \/ Create
    \/ Update
    \/ Unchanged
    \/ Diff
    \/ SkipDownload
    \/ Download
    \/ Upload
    \/ Clean
    \/ Delete

\* the calls are blocking and every one of them returns, so a pass that can
\* take a step takes one; whether the program is run again is left open
LiveSpec == Init /\ [][Next]_vars /\ WF_vars(PassStep)

(***************************************************************************)
(* What the claims speak of                                                *)
(***************************************************************************)
\* the calls of these operations the running (or last) pass has issued
CallsOf(ops) == {i \in 1..Len(calls) : calls[i].pass = pass /\ calls[i].op \in ops}
Writes == {"create", "update", "download", "upload"}

AssetNames(release) == {release.assets[i].name : i \in 1..Len(release.assets)}

\* the pruner of this pass deleted the mirror release of that tag
Pruned(tag) ==
    \E i \in CallsOf({"delete"}) : calls[i].ok /\ calls[i].tag = tag

\* C1: Idempotence.  When a pass has returned success and the program is run
\* again against the unchanged origin, the second pass issues no create, no
\* update, no download and no upload.
C1_Idempotent ==
    (pass = 2 /\ results[1] = "ok") => CallsOf(Writes) = {}

\* C2: Reconciliation postcondition.  After a pass that returned success every
\* origin release the filter selected has a mirror release of the same
\* tag_name with the origin's name and prerelease and with an asset of every
\* origin asset name, unless the pruner of the pass deleted it.
C2_Reconciled ==
    (pc = "done" /\ result = "ok") =>
        \A i \in 1..Len(github_releases) :
            LET r == github_releases[i]
            IN  \/ Pruned(r.tag_name)
                \/ \E j \in 1..Len(gitee) :
                      /\ gitee[j].tag_name = r.tag_name
                      /\ gitee[j].name = r.name
                      /\ gitee[j].prerelease = r.prerelease
                      /\ AssetNames(r) \subseteq AssetNames(gitee[j])

\* a successful pass that updated a release and uploaded an asset to it
C2_Witness ==
    /\ pc = "done"
    /\ result = "ok"
    /\ \E i \in CallsOf({"update"}) : \E j \in CallsOf({"upload"}) :
          /\ calls[i].ok /\ calls[j].ok
          /\ calls[i].tag = calls[j].tag
          /\ ~Pruned(calls[i].tag)

C4_DiffByName ==
    [][Diff =>
          /\ diff_asserts' =
                SelectSeq(current_release.assets,
                          LAMBDA a : a.name \notin AssetNames(gitee_release))
          /\ UNCHANGED <<github, gitee, fs, calls>>]_vars

\* the diff left out an asset the mirror holds under the same name with
\* another size and another URL, and kept one the mirror does not hold
C4_Witness ==
    /\ pc = "download"
    /\ k = 1
    /\ \E i \in 1..Len(current_release.assets) :
       \E j \in 1..Len(gitee_release.assets) :
          LET a == current_release.assets[i]
              m == gitee_release.assets[j]
          IN  /\ a.name = m.name
              /\ a.size # m.size
              /\ a.browser_download_url # m.browser_download_url
              /\ a \notin Range(diff_asserts)
    /\ Len(diff_asserts) = 1

\* the ids of the releases the pruner of this pass deleted, of the releases
\* the mirror holds, and of those it held when the pruner listed it
DeletedIds == {calls[i].id : i \in {j \in CallsOf({"delete"}) : calls[j].ok}}
MirrorIds == {gitee[i].id : i \in 1..Len(gitee)}
PrunerFound == MirrorIds \cup DeletedIds
Smallest(ids, n) == {d \in ids : Cardinality({e \in ids : e < d}) < n}

\* C5: Retention.  With M releases on the mirror and the retain count N, a
\* successful pass has deleted nothing when M <= N and exactly the M - N
\* releases of the smallest ids when M > N (ids 1..120 and N = 100: 1..20).
C5_Retention ==
    (pc = "done" /\ result = "ok") =>
        LET M == Cardinality(PrunerFound)
            N == cli.gitee_retain_release_count
        IN  IF M <= N THEN DeletedIds = {}
            ELSE DeletedIds = Smallest(PrunerFound, M - N)

\* the tags that are versions, and the greatest of them
Versions(tags) == {t \in tags : is_some(version_from(t))}
VersionMaximum(tags) ==
    CHOOSE m \in Versions(tags) :
        \A t \in Versions(tags) : compare(t, m) \in {"Lt", "Eq"}

\* C6: Version filter.  With ignore_lt_gitee_max_version enabled and a
\* non-empty mirror the filter selects exactly the fetched origin releases
\* whose tag is strictly greater than the version-maximum of the mirror's
\* tags; with the toggle disabled or an empty mirror it selects every fetched
\* release.
C6_StrictlyGreater ==
    [][Filter =>
          IF cli.ignore_lt_gitee_max_version /\ gitee_releases # <<>>
          THEN Versions(Range(get_tags(gitee_releases))) # {} =>
                  github_releases' =
                      SelectSeq(github_releases,
                          LAMBDA r : compare(r.tag_name,
                              VersionMaximum(Range(get_tags(gitee_releases)))) = "Gt")
          ELSE github_releases' = github_releases]_vars

\* C6 (amended): with the toggle enabled and a non-empty mirror the filter
\* selects exactly the fetched origin releases whose tag is strictly greater
\* than the maximum of the mirror's tags or cannot be compared with it.  The
\* maximum is the tag the scan of the mirror's tags ends with; it is the
\* version-maximum when every mirror tag is a version.  With the toggle
\* disabled or an empty mirror every fetched release is selected.
C6_GreaterOrInconclusive ==
    [][Filter =>
          IF cli.ignore_lt_gitee_max_version /\ gitee_releases # <<>>
          THEN LET tags == Range(get_tags(gitee_releases))
                   maximum == max_gitee_tag(gitee_releases)
               IN  /\ github_releases' =
                          SelectSeq(github_releases,
                              LAMBDA r : compare(r.tag_name, maximum) \in {"Gt", "Err"})
                   /\ Versions(tags) = tags => maximum = VersionMaximum(tags)
          ELSE github_releases' = github_releases]_vars

\* the example: of the origin tags v0.9.0, v0.9.2 and v1.0.0, with a mirror
\* whose maximum is v0.9.2, the filter has selected v1.0.0 only
C6_Witness ==
    /\ pc = "sync"
    /\ cli.ignore_lt_gitee_max_version
    /\ cli.github_latest_release_count >= 3
    /\ Range(get_tags(github)) = {V090, V092, V100}
    /\ Len(gitee_releases) > 1
    /\ max_gitee_tag(gitee_releases) = V092
    /\ get_tags(github_releases) = <<V100>>
    /\ CallsOf(Writes) = {}

\* the origin release of a tag, as the origin holds it
OriginOf(tag) == CHOOSE r \in Range(github) : r.tag_name = tag
HasNoBody(release) == unwrap_or_default(release.body) = <<>>

\* C7: Body substitution.  No create and no update carries an empty or absent
\* body: a fetched origin release without body text has its tag_name for a
\* body before it is compared, so that against a mirror release whose body
\* is the tag_name only the name or the prerelease flag trigger an update.
C7_BodySubstitution ==
    /\ \A i \in 1..Len(calls) :
          calls[i].op \in {"create", "update"} =>
              unwrap_or_default(calls[i].payload.body) # <<>>
    /\ \A i \in 1..Len(github_releases) :
          HasNoBody(OriginOf(github_releases[i].tag_name)) =>
              github_releases[i].body = Some(github_releases[i].tag_name)
    /\ \A i \in CallsOf({"update"}) :
       \A j \in 1..Len(gitee_releases) :
          LET origin == OriginOf(calls[i].tag)
              er == gitee_releases[j]
          IN  (/\ er.tag_name = calls[i].tag
               /\ HasNoBody(origin)
               /\ er.body = Some(er.tag_name)) =>
                  (er.name # origin.name \/ er.prerelease # origin.prerelease)

\* a release without body text was created with its tag_name for a body, and
\* the next pass found nothing to update
C7_Witness ==
    /\ pass = 2
    /\ pc = "diff"
    /\ CallsOf(Writes) = {}
    /\ HasNoBody(OriginOf(current_release.tag_name))
    /\ \E i \in 1..Len(calls) :
          /\ calls[i].op = "create"
          /\ calls[i].ok
          /\ calls[i].tag = current_release.tag_name
          /\ calls[i].payload.body = Some(current_release.tag_name)

\* the staged file of the asset had the declared size when the pass started
StagedWhole(release, asset) ==
    /\ is_some(asset.size)
    /\ file_path(cli, release, asset) \in DOMAIN fs0
    /\ file_len(fs0[file_path(cli, release, asset)]) = unwrap(asset.size)

DownloadCalled(release, asset) ==
    \E i \in CallsOf({"download"}) :
        calls[i].tag = release.tag_name /\ calls[i].asset = asset.name

\* C8: Skip-download.  For an asset whose declared size is known and whose
\* staged file exists with exactly that size, the pass issues no download call
\* and leaves the staged file as it is.
C8_SkipDownload ==
    \A r \in Range(github) :
    \A a \in Range(r.assets) :
        StagedWhole(r, a) =>
            /\ ~DownloadCalled(r, a)
            /\ fs[file_path(cli, r, a)] = fs0[file_path(cli, r, a)]

\* an asset of the diff, staged with its declared size, went to the mirror
\* without having been downloaded
C8_Witness ==
    \E r \in Range(github) :
    \E a \in Range(r.assets) :
        /\ StagedWhole(r, a)
        /\ a \in Range(diff_asserts)
        /\ \E i \in CallsOf({"upload"}) :
              calls[i].ok /\ calls[i].tag = r.tag_name /\ calls[i].asset = a.name

\* C9: Configuration validation.  Unless retain count >= fetch count >= 1 the
\* run issues no remote call at all and ends with an error.
C9_Validation ==
    ~(/\ cli.gitee_retain_release_count >= cli.github_latest_release_count
      /\ cli.github_latest_release_count >= 1) =>
        /\ calls = <<>>
        /\ pc = "done" => result = "err"

\* C10: Oldest first.  Within a pass the selected releases are reconciled in
\* increasing order of their origin ids, so that of two releases created by
\* the same pass the one of the smaller origin id has the smaller mirror id.
C10_OldestFirst ==
    /\ \A i, j \in CallsOf(Writes) :
          i < j => OriginOf(calls[i].tag).id <= OriginOf(calls[j].tag).id
    /\ \A i, j \in CallsOf({"create"}) :
          (i < j /\ calls[i].ok /\ calls[j].ok) =>
              /\ OriginOf(calls[i].tag).id < OriginOf(calls[j].tag).id
              /\ calls[i].id < calls[j].id

\* a pass has created two releases
C10_Witness ==
    \E i, j \in CallsOf({"create"}) :
        /\ i < j
        /\ calls[i].ok
        /\ calls[j].ok
        /\ has_release(gitee, calls[i].id)
        /\ has_release(gitee, calls[j].id)

\* the positions in calls of the calls of a pass, and the last of them
CallsOfPass(n) == {i \in 1..Len(calls) : calls[i].pass = n}
IsLastOfPass(i) == \A j \in CallsOfPass(calls[i].pass) : j <= i

\* C11: Pruning comes last, on fresh state.  In a pass no delete is issued
\* before a create, update, download or upload, the mirror is listed once for
\* the pruner and every delete follows that listing, and the list the pruner
\* decides on holds the releases the pass has created.
C11_PruningLast ==
    /\ \A i \in CallsOf({"delete"}) : \A j \in CallsOf(Writes) : j < i
    /\ Cardinality(CallsOf({"list_gitee"})) <= 2
    /\ \A i \in CallsOf({"delete"}) :
          Cardinality({j \in CallsOf({"list_gitee"}) : j < i}) = 2
    /\ pc = "delete" =>
          \A i \in CallsOf({"create"}) :
              calls[i].ok => \E j \in 1..Len(clean_list) : clean_list[j].id = calls[i].id

\* the pruner deletes after the pass has created a release that its list holds
C11_Witness ==
    /\ pc = "done"
    /\ result = "ok"
    /\ \E i \in CallsOf({"create"}) :
          /\ calls[i].ok
          /\ \E j \in 1..Len(clean_list) : clean_list[j].id = calls[i].id
    /\ \E i \in CallsOf({"delete"}) : calls[i].ok

RegistryCalls == {"list_github", "list_gitee", "create", "update"}
Transfers == {"download", "upload"}

\* the pass of the call has ended, in failure, with the call
AbortedBy(i) ==
    /\ IsLastOfPass(i)
    /\ Len(results) >= calls[i].pass
    /\ results[calls[i].pass] = "err"
    /\ calls[i].pass = pass => pc = "done" /\ result = "err"

\* C12: Registry errors abort the pass.  When a list, create or update call
\* fails the pass returns a failure and issues no further call: nothing for
\* the later releases, and no delete.
C12_RegistryErrorAborts ==
    \A i \in 1..Len(calls) :
        (calls[i].op \in RegistryCalls /\ ~calls[i].ok) => AbortedBy(i)

\* the create of the first of two selected releases failed: the pass is over,
\* in failure, and the second release was not touched
C12_Witness ==
    /\ pc = "done"
    /\ result = "err"
    /\ Len(github_releases) = 2
    /\ idx = 2
    /\ \E i \in CallsOf({"create"}) :
          /\ ~calls[i].ok
          /\ IsLastOfPass(i)
          /\ calls[i].tag = github_releases[2].tag_name

\* C13: Transfer errors are logged and skipped.  A failed download or upload
\* of an asset does not end the pass in failure: the pass goes on with the
\* remaining assets and releases.
C13_TransferErrorSkipped ==
    \A i \in 1..Len(calls) :
        (calls[i].op \in Transfers /\ ~calls[i].ok) => ~AbortedBy(i)

\* the first pass created the mirror release of the tag and stopped, in
\* failure, before the mirror release had an asset of every origin asset name
Interrupted(tag) ==
    /\ pass = 2
    /\ results[1] = "err"
    /\ \E i \in CallsOfPass(1) :
          calls[i].op = "create" /\ calls[i].ok /\ calls[i].tag = tag
    /\ \E j \in 1..Len(gitee0) :
          /\ gitee0[j].tag_name = tag
          /\ ~(AssetNames(OriginOf(tag)) \subseteq AssetNames(gitee0[j]))

\* C14: Resume after interruption.  When a pass has stopped after it created
\* a mirror release and before it uploaded all the missing assets, a later
\* pass that returns success leaves the mirror release with an asset of every
\* origin asset name, whatever ignore_lt_gitee_max_version is.
C14_Resume ==
    \A r \in Range(github) :
        (Interrupted(r.tag_name) /\ pc = "done" /\ result = "ok") =>
            \E j \in 1..Len(gitee) :
                /\ gitee[j].tag_name = r.tag_name
                /\ AssetNames(r) \subseteq AssetNames(gitee[j])

\* the release of the fetched mirror list that has the tag
HasCounterpart(tag) == \E j \in 1..Len(gitee_releases) : gitee_releases[j].tag_name = tag
Counterpart(tag) ==
    gitee_releases[CHOOSE j \in 1..Len(gitee_releases) : gitee_releases[j].tag_name = tag]

\* the origin body after the optional URL rewrite
RewrittenBody(release) ==
    IF cli.release_body_url_replace
    THEN Replace(unwrap_or_default(release.body),
                 <<GITHUB_URL, cli.github_owner, "/", cli.github_repo>>,
                 <<GITEE_URL, cli.gitee_owner, "/", cli.gitee_repo>>)
    ELSE unwrap_or_default(release.body)

Differs(release, er) ==
    \/ release.name # er.name
    \/ RewrittenBody(release) # unwrap_or_default(er.body)
    \/ release.prerelease # er.prerelease

\* C15: Update trigger.  For an origin release with a mirror counterpart the
\* step issues an update call if and only if the name, the body (the origin's
\* after the optional rewrite, the mirror's absent one taken for empty) or
\* prerelease differ; target_commitish plays no part.
C15_UpdateTrigger ==
    [][(pc = "sync" /\ HasCounterpart(current_release.tag_name)) =>
          LET er == Counterpart(current_release.tag_name)
          IN  IF Differs(current_release, er)
              THEN /\ Len(calls') = Len(calls) + 1
                   /\ calls'[Len(calls')].op = "update"
                   /\ calls'[Len(calls')].tag = current_release.tag_name
              ELSE calls' = calls]_vars

\* a counterpart that differs in target_commitish only was left alone
C15_Witness ==
    /\ pc = "diff"
    /\ HasCounterpart(current_release.tag_name)
    /\ gitee_release = Counterpart(current_release.tag_name)
    /\ gitee_release.target_commitish # current_release.target_commitish
    /\ ~Differs(current_release, gitee_release)
    /\ CallsOf({"update"}) = {}

\* the release of the fetched origin list that has the tag
Fetched(tag) ==
    github_releases[CHOOSE j \in 1..Len(github_releases) : github_releases[j].tag_name = tag]

\* C16: Update payload.  Every update call is addressed to the id of the
\* mirror release and carries the mirror's id and tag_name and the origin's
\* name, body and prerelease; the value handed on keeps the mirror's assets;
\* no create and no update payload holds the assets.
C16_UpdatePayload ==
    /\ \A i \in CallsOf({"update"}) :
          LET er == Counterpart(calls[i].tag)
              release == Fetched(calls[i].tag)
              p == calls[i].payload
          IN  /\ calls[i].id = er.id
              /\ p.id = er.id
              /\ p.tag_name = er.tag_name
              /\ p.name = release.name
              /\ p.body = release.body
              /\ p.prerelease = release.prerelease
              /\ (pc = "diff" /\ calls[i].ok /\ calls[i].tag = current_release.tag_name) =>
                    /\ gitee_release.id = er.id
                    /\ gitee_release.assets = er.assets
    /\ \A i \in 1..Len(calls) :
          calls[i].op \in {"create", "update"} => "assets" \notin DOMAIN calls[i].payload

\* an update went to a mirror release that has an asset and differs from the
\* origin in name and prerelease
C16_Witness ==
    /\ pc = "diff"
    /\ \E i \in CallsOf({"update"}) :
          /\ calls[i].ok
          /\ IsLastOfPass(i)
          /\ calls[i].tag = current_release.tag_name
          /\ Counterpart(calls[i].tag).assets # <<>>
          /\ Counterpart(calls[i].tag).name # calls[i].payload.name
          /\ Counterpart(calls[i].tag).prerelease # calls[i].payload.prerelease
          /\ calls[i].id # current_release.id

\* C17: The body URL rewrite reaches the mirror.  The body of every create and
\* update payload is the origin body after the optional rewrite, the text the
\* update trigger compares: rewritten with release_body_url_replace enabled,
\* unchanged with it disabled.
C17_RewrittenBodySent ==
    \A i \in CallsOf({"create", "update"}) :
        calls[i].payload.body = Some(RewrittenBody(Fetched(calls[i].tag)))

\* the names of the assets of an origin release that its mirror release did
\* not have when the pass started
MissingAtStart(release) ==
    IF \E j \in 1..Len(gitee0) : gitee0[j].tag_name = release.tag_name
    THEN AssetNames(release) \
            UNION {AssetNames(gitee0[j]) :
                      j \in {n \in 1..Len(gitee0) : gitee0[n].tag_name = release.tag_name}}
    ELSE AssetNames(release)

TransfersOf(ops, tag, name) ==
    {i \in CallsOf(ops) : calls[i].tag = tag /\ calls[i].asset = name}

\* C18: Per-release state machine.  A release whose diff is empty gets no
\* download and no upload; otherwise every download of the release precedes
\* its first upload, downloads and uploads are for assets of the diff only,
\* and a pass that succeeds has issued exactly one upload for each of them.
C18_ReleaseStateMachine ==
    \A r \in Range(github) :
        /\ \A i \in CallsOf(Transfers) :
              calls[i].tag = r.tag_name => calls[i].asset \in MissingAtStart(r)
        /\ \A i \in CallsOf({"download"}) : \A j \in CallsOf({"upload"}) :
              (calls[i].tag = r.tag_name /\ calls[j].tag = r.tag_name) => i < j
        /\ \A name \in MissingAtStart(r) :
              /\ Cardinality(TransfersOf({"download"}, r.tag_name, name)) <= 1
              /\ Cardinality(TransfersOf({"upload"}, r.tag_name, name)) <= 1
              /\ (pc = "done" /\ result = "ok" /\ r.tag_name \in Range(get_tags(github_releases)))
                    => Cardinality(TransfersOf({"upload"}, r.tag_name, name)) = 1

\* a successful pass over a release with two missing assets and one with none
C18_Witness ==
    /\ pc = "done"
    /\ result = "ok"
    /\ \E r \in Range(github) :
          /\ r.tag_name \in Range(get_tags(github_releases))
          /\ Cardinality(MissingAtStart(r)) = 2
          /\ \A name \in MissingAtStart(r) :
                /\ TransfersOf({"download"}, r.tag_name, name) # {}
                /\ TransfersOf({"upload"}, r.tag_name, name) # {}

\* C19: Strictly sequential reconciliation.  Within a pass the calls made for
\* one release are consecutive: between two calls for a release no call for
\* another release is issued.
C19_Sequential ==
    \A i, j, l \in CallsOf(Writes) :
        (i < j /\ j < l /\ calls[i].tag = calls[l].tag) => calls[j].tag = calls[i].tag

\* a pass has issued several calls for each of two releases
C19_Witness ==
    \E i, j, l, m \in CallsOf(Writes) :
        /\ i < j /\ j < l /\ l < m
        /\ calls[i].tag = calls[j].tag
        /\ calls[l].tag = calls[m].tag
        /\ calls[j].tag # calls[l].tag
        /\ calls[m].op = "upload"

\* C20: Pruner deletion order.  The delete calls of a pass are issued one at a
\* time in increasing order of the mirror ids, oldest first (stated for the
\* configurations with retain count >= fetch count >= 1).
C20_OldestDeletedFirst ==
    (/\ cli.gitee_retain_release_count >= cli.github_latest_release_count
     /\ cli.github_latest_release_count >= 1) =>
        \A i, j \in CallsOf({"delete"}) : i < j => calls[i].id < calls[j].id

\* C20 (amended): the delete calls of a pass are issued one at a time in
\* decreasing order of the mirror ids, the newest of the releases beyond the
\* retain count first, each after the one before it has succeeded.
C20_NewestDeletedFirst ==
    \A i, j \in CallsOf({"delete"}) :
        i < j => calls[i].id > calls[j].id /\ calls[i].ok

\* a pass has deleted two releases
C20_Witness ==
    \E i, j \in CallsOf({"delete"}) :
        /\ i < j
        /\ calls[i].ok
        /\ calls[j].ok
        /\ ~has_release(gitee, calls[i].id)
        /\ ~has_release(gitee, calls[j].id)

\* C21: Pruner failure.  A failed delete is the last call of its pass and the
\* pass returns a failure; the releases deleted before it stay deleted.
C21_PrunerFailure ==
    /\ \A i \in 1..Len(calls) :
          (calls[i].op = "delete" /\ ~calls[i].ok) => AbortedBy(i)
    /\ \A i \in 1..Len(calls) :
          (calls[i].op = "delete" /\ calls[i].ok) => ~has_release(gitee, calls[i].id)

\* the second delete of a pass failed after the first had succeeded
C21_Witness ==
    /\ pc = "done"
    /\ result = "err"
    /\ k < Len(clean_list)
    /\ \E i, j \in CallsOf({"delete"}) :
          /\ i < j
          /\ calls[i].ok
          /\ ~calls[j].ok
          /\ IsLastOfPass(j)
          /\ has_release(gitee, calls[j].id)

\* the tag is no version, or the maximum the filter takes of the fetched mirror
\* list (it takes one when the toggle is enabled and the list is not empty) is
\* no version
Inconclusive(tag) ==
    \/ is_none(version_from(tag))
    \/ /\ cli.ignore_lt_gitee_max_version
       /\ gitee_releases # <<>>
       /\ is_none(version_from(max_gitee_tag(gitee_releases)))

\* C22: Conservative bias of the version filter.  The filter keeps every
\* fetched origin release whose tag is no version or cannot be compared with
\* the maximum of the mirror's tags, whatever the toggle is.
C22_KeepsInconclusive ==
    [][pc = "filter" =>
          \A i \in 1..Len(github_releases) :
              Inconclusive(github_releases[i].tag_name) =>
                  github_releases[i] \in Range(github_releases')]_vars

\* with the toggle enabled the filter has kept the release of a tag that is no
\* version and dropped a release of the tag the mirror has as its maximum
C22_Witness ==
    /\ pc = "sync"
    /\ cli.ignore_lt_gitee_max_version
    /\ gitee_releases # <<>>
    /\ is_some(version_from(max_gitee_tag(gitee_releases)))
    /\ NIGHTLY \in Range(get_tags(github_releases))
    /\ \E r \in Range(github) :
          /\ r.tag_name = max_gitee_tag(gitee_releases)
          /\ r.tag_name \notin Range(get_tags(github_releases))
    /\ CallsOf(Writes) = {}

\* the first part of a tag without its leading v
WithoutV(part) ==
    CASE part = "v0" -> "0" [] part = "v1" -> "1" [] part = "v9" -> "9"
      [] part = "v10" -> "10" [] OTHER -> part

\* the components of a tag, the leading v ignored
Components(tag) ==
    LET parts == split_version_str(tag)
    IN  [i \in 1..Len(parts) |-> IF i = 1 THEN WithoutV(parts[i]) ELSE parts[i]]

IsNumeric(tag) ==
    /\ Components(tag) # <<>>
    /\ \A i \in 1..Len(Components(tag)) : is_number(Components(tag)[i])

\* the order of two sequences of numerals, component by component as numbers
RECURSIVE NumericOrder(_, _)
NumericOrder(a, b) ==
    IF a = <<>> /\ b = <<>> THEN "Eq"
    ELSE LET x == IF a = <<>> THEN 0 ELSE number(Head(a))
             y == IF b = <<>> THEN 0 ELSE number(Head(b))
         IN  IF x < y THEN "Lt"
             ELSE IF x > y THEN "Gt"
             ELSE NumericOrder(IF a = <<>> THEN a ELSE Tail(a),
                               IF b = <<>> THEN b ELSE Tail(b))

\* C23: Version comparison.  Whenever the filter compares the maximum of the
\* mirror's tags with the tag of a fetched release, and both are numbers
\* separated by dots behind an optional leading v, the result is the order of
\* their components as numbers.
C23_NumericComparison ==
    (pc = "filter" /\ cli.ignore_lt_gitee_max_version /\ gitee_releases # <<>>) =>
        LET max_tag == max_gitee_tag(gitee_releases)
        IN  \A i \in 1..Len(github_releases) :
                LET tag == github_releases[i].tag_name
                IN  (IsNumeric(max_tag) /\ IsNumeric(tag)) =>
                        compare(max_tag, tag) =
                            NumericOrder(Components(max_tag), Components(tag))

\* C24: Only the newest N are kept for sync.  The list the filter hands to the
\* loop holds at most gitee_retain_release_count releases, and a pass creates
\* no more releases than that (stated for a retain count of at least 1).
C24_AtMostRetain ==
    cli.gitee_retain_release_count >= 1 =>
        /\ pc = "sync" => Len(github_releases) <= cli.gitee_retain_release_count
        /\ Cardinality({i \in CallsOf({"create"}) : calls[i].ok})
               <= cli.gitee_retain_release_count

\* the ids of a list are those of the page, each once, in descending order
NewestFirst(list, page) ==
    /\ Len(list) = Len(page)
    /\ {list[i].id : i \in 1..Len(list)} = {page[i].id : i \in 1..Len(page)}
    /\ \A i \in 1..Len(list) - 1 : list[i].id > list[i + 1].id

\* C25: Order normalisation.  Whatever order the registry returns a page in,
\* the list github_releases fetches, the list gitee_releases fetches and the
\* list the pruner fetches hold the releases of the page newest id first.
C25_OrderNormalised ==
    [][(Len(calls') > Len(calls) /\ calls'[Len(calls')].ok) =>
          /\ pc = "github_releases" =>
                 NewestFirst(github_releases',
                             Page(github, cli.github_latest_release_count))
          /\ pc = "gitee_releases" =>
                 NewestFirst(gitee_releases', Page(gitee, PerPage))
          /\ pc = "clean" =>
                 NewestFirst(clean_list', Page(gitee, PerPage))]_vars

\* both lists of the pass hold several releases, the mirror's in the reverse
\* of the order the registry keeps them in, and the pruner's list as well
C25_Witness ==
    /\ pc = "delete"
    /\ Len(github_releases) >= 2
    /\ Len(gitee_releases) >= 2
    /\ gitee_releases = Reverse(gitee0)
    /\ Len(clean_list) >= 2
    /\ clean_list = Reverse(Page(gitee, PerPage))

\* C26: Download when the skip check fails.  For the asset the download loop
\* is at, if no staged file exists, or the declared size is absent, or the
\* staged file has another size, the step issues a download call for it, and
\* after a successful download the staged file holds the remote body and
\* nothing of its previous content (for latest.json under
\* latest_json_url_replace: the remote body with its base URL replaced).
C26_DownloadOverwrites ==
    [][pc = "download" =>
          LET asset == diff_asserts[k]
              path == <<cli.github_repo, current_release.tag_name, asset.name>>
              body == remote_body(asset.browser_download_url)
          IN  (\/ path \notin DOMAIN fs
               \/ is_none(asset.size)
               \/ file_len(fs[path]) # unwrap(asset.size)) =>
                 /\ Len(calls') = Len(calls) + 1
                 /\ calls'[Len(calls')].op = "download"
                 /\ calls'[Len(calls')].tag = current_release.tag_name
                 /\ calls'[Len(calls')].asset = asset.name
                 /\ calls'[Len(calls')].ok =>
                        /\ path \in DOMAIN fs'
                        /\ fs'[path] =
                              IF cli.latest_json_url_replace /\ asset.name = LATEST_JSON
                              THEN Replace(body, GithubBase(cli), GiteeBase(cli))
                              ELSE body]_vars

\* a successful download has replaced a staged file of other content, and a
\* staged file of an asset without declared size has been downloaded again
C26_Witness ==
    /\ \E i \in CallsOf({"download"}) :
          LET path == <<cli.github_repo, calls[i].tag, calls[i].asset>>
          IN  /\ calls[i].ok
              /\ calls[i].asset = APP_ZIP
              /\ path \in DOMAIN fs0
              /\ fs0[path] # FileBody(APP_ZIP)
              /\ fs0[path] # <<>>
              /\ fs[path] = FileBody(APP_ZIP)
    /\ \E i \in CallsOf({"download"}) :
          LET path == <<cli.github_repo, calls[i].tag, calls[i].asset>>
          IN  /\ calls[i].ok
              /\ calls[i].asset = NOTES_TXT
              /\ path \in DOMAIN fs0
              /\ fs[path] = FileBody(NOTES_TXT)

\* the download calls of this pass for the staged file of that path
DownloadsTo(path) ==
    {i \in CallsOf({"download"}) :
        path = <<cli.github_repo, calls[i].tag, calls[i].asset>>}

\* C27: Manifest rewrite gating.  A staged file that was downloaded
\* successfully in this pass holds the remote body with the origin base URL
\* replaced by the mirror base URL if latest_json_url_replace is enabled and
\* its name is latest.json, and the remote body byte for byte otherwise; a
\* staged file for which the pass issued no download, a skipped latest.json
\* included, holds what it held when the pass started.
C27_RewriteGating ==
    \A path \in DOMAIN fs :
        LET name == path[3]
            body == FileBody(name)
        IN  /\ (\E i \in DownloadsTo(path) : calls[i].ok) =>
                   fs[path] =
                       IF cli.latest_json_url_replace /\ name = LATEST_JSON
                       THEN Replace(body, GithubBase(cli), GiteeBase(cli))
                       ELSE body
            /\ DownloadsTo(path) = {} =>
                   path \in DOMAIN fs0 /\ fs[path] = fs0[path]

\* a pass has downloaded latest.json and another asset: the first is rewritten,
\* the second is not
C27_Witness ==
    /\ pc = "done"
    /\ cli.latest_json_url_replace
    /\ \E i, j \in CallsOf({"download"}) :
          /\ calls[i].ok /\ calls[j].ok
          /\ calls[i].tag = calls[j].tag
          /\ calls[i].asset = LATEST_JSON
          /\ calls[j].asset = APP_ZIP
          /\ LET latest == <<cli.github_repo, calls[i].tag, LATEST_JSON>>
                 other == <<cli.github_repo, calls[j].tag, APP_ZIP>>
             IN  /\ fs[latest] # FileBody(LATEST_JSON)
                 /\ fs[latest] = Replace(FileBody(LATEST_JSON), GithubBase(cli),
                                         GiteeBase(cli))
                 /\ fs[other] = FileBody(APP_ZIP)

\* C28: Staged files are retained.  A step of the upload loop, whether its
\* upload succeeds or fails, leaves the staging area as it is, and no step of
\* the program removes a staged file.
C28_StagedRetained ==
    [][/\ pc = "upload" => fs' = fs
       /\ \A path \in DOMAIN fs : path \in DOMAIN fs']_vars

\* a pass has sent one staged file and failed to send another: both are staged
C28_Witness ==
    /\ pc = "done"
    /\ \E i, j \in CallsOf({"upload"}) :
          /\ calls[i].ok
          /\ ~calls[j].ok
          /\ <<cli.github_repo, calls[i].tag, calls[i].asset>> \in DOMAIN fs
          /\ <<cli.github_repo, calls[j].tag, calls[j].asset>> \in DOMAIN fs
          /\ \E d \in CallsOf({"download"}) :
                calls[d].ok /\ calls[d].tag = calls[i].tag
                            /\ calls[d].asset = calls[i].asset

\* the owners an origin repository of the configured name may have
Owners == {OWNER, "someone-else"}

\* the assets of the selected releases, each with the tag of its release
StagedAssets ==
    UNION {{<<github_releases[i].tag_name, github_releases[i].assets[j].name>> :
               j \in 1..Len(github_releases[i].assets)} :
           i \in 1..Len(github_releases)}

\* C29: Staging key.  While a pass stages assets, two assets that differ in
\* the owner of the origin repository, in the tag_name or in the asset name
\* have different staging paths.
C29_StagingKey ==
    pc = "download" =>
        \A o1 \in Owners, o2 \in Owners :
            \A x \in StagedAssets, y \in StagedAssets :
                <<o1, x>> # <<o2, y>> =>
                    file_path([cli EXCEPT !.github_owner = o1],
                              [tag_name |-> x[1]], [name |-> x[2]])
                        # file_path([cli EXCEPT !.github_owner = o2],
                                    [tag_name |-> y[1]], [name |-> y[2]])

\* the origin release the loop is at has no release of its tag in the list
\* of the mirror the pass fetched
IsNew(release) == ~HasCounterpart(release.tag_name)

\* C30: Diff of a new release.  For an origin release without mirror
\* counterpart the asset diff is the origin's full asset list, and when the
\* pass has succeeded, every asset of a release it created has an upload of
\* this pass, and a download of this pass unless a staged file of the
\* declared size was there when the pass started.
C30_DiffOfNewRelease ==
    [][/\ (pc = "diff" /\ IsNew(current_release)) =>
              diff_asserts' = current_release.assets
       /\ (pc' = "done" /\ result' = "ok") =>
              \A c \in {i \in 1..Len(calls') : calls'[i].pass = pass
                                                 /\ calls'[i].op = "create"} :
                  LET release == OriginOf(calls'[c].tag)
                  IN  \A j \in 1..Len(release.assets) :
                          LET asset == release.assets[j]
                          IN  /\ \E u \in c..Len(calls') :
                                    /\ calls'[u].op = "upload"
                                    /\ calls'[u].ok
                                    /\ calls'[u].tag = release.tag_name
                                    /\ calls'[u].asset = asset.name
                              /\ \/ StagedWhole(release, asset)
                                 \/ \E d \in c..Len(calls') :
                                       /\ calls'[d].op = "download"
                                       /\ calls'[d].ok
                                       /\ calls'[d].tag = release.tag_name
                                       /\ calls'[d].asset = asset.name]_vars

\* a successful pass has created a release of two assets and sent both, one of
\* them found staged and one downloaded
C30_Witness ==
    /\ pc = "done"
    /\ result = "ok"
    /\ \E c \in CallsOf({"create"}) :
          LET release == OriginOf(calls[c].tag)
          IN  /\ Len(release.assets) = 2
              /\ \E a, b \in 1..2 :
                    /\ StagedWhole(release, release.assets[a])
                    /\ ~DownloadCalled(release, release.assets[a])
                    /\ DownloadCalled(release, release.assets[b])
              /\ \A j \in 1..2 :
                    TransfersOf({"upload"}, release.tag_name,
                                release.assets[j].name) # {}

\* the successful create calls of this pass for that tag
CreatedAs(tag) ==
    {c \in CallsOf({"create"}) : calls[c].ok /\ calls[c].tag = tag}

\* C31: Upload target.  Every upload of a pass is addressed to the id the
\* create call of the pass returned for the tag of its origin release, or,
\* when the pass created no release of that tag, to the id of the release of
\* that tag the mirror held when the pass started; it is never addressed to
\* the id of an origin release.
C31_UploadTarget ==
    \A i \in CallsOf({"upload"}) :
        /\ IF CreatedAs(calls[i].tag) # {}
           THEN \A c \in CreatedAs(calls[i].tag) : c < i /\ calls[i].id = calls[c].id
           ELSE \E j \in 1..Len(gitee0) :
                   /\ gitee0[j].tag_name = calls[i].tag
                   /\ gitee0[j].id = calls[i].id
        /\ \A r \in Range(github) : calls[i].id # r.id
        /\ calls[i].ok =>
               \A j \in 1..Len(gitee) :
                   (\E a \in 1..Len(gitee[j].assets) :
                       /\ gitee[j].assets[a].name = calls[i].asset
                       /\ gitee[j].tag_name = calls[i].tag
                       /\ gitee[j].assets[a] \notin
                             UNION {Range(gitee0[n].assets) : n \in 1..Len(gitee0)})
                   => gitee[j].id = calls[i].id

\* a pass has created a release with an id of the mirror other than the id of
\* the origin release, and an upload addressed to that id has succeeded
C31_Witness ==
    \E c \in CallsOf({"create"}) :
        \E u \in CallsOf({"upload"}) :
            /\ c < u
            /\ calls[c].ok
            /\ calls[u].ok
            /\ calls[u].tag = calls[c].tag
            /\ calls[u].id = calls[c].id
            /\ calls[u].id # OriginOf(calls[u].tag).id
            /\ Len(gitee0) >= 1

AllOps ==
    {"list_github", "list_gitee", "create", "update", "download", "upload", "delete"}

\* C32: Termination and outcome.  Every pass eventually ends, with success or
\* with a failure, and a pass that has ended with success has issued no call
\* that failed.
C32_TerminationAndOutcome ==
    /\ \A n \in 1..MaxPass :
          (pass = n) ~> (pass = n /\ pc = "done" /\ result \in {"ok", "err"})
    /\ []((pc = "done" /\ result = "ok") =>
             \A i \in CallsOf(AllOps) : calls[i].ok)

\* a pass that listed, created, downloaded, uploaded and deleted has ended with
\* success
C32_Witness ==
    /\ pc = "done"
    /\ result = "ok"
    /\ \A op \in AllOps \ {"update"} : CallsOf({op}) # {}
    /\ \A i \in CallsOf(AllOps) : calls[i].ok

\* C33: The origin is read-only.  No step changes the releases of the origin,
\* and a call a step issues is addressed to the origin only if it is the list
\* of the origin's releases or the download of an asset; every create, update,
\* upload and delete is addressed to the mirror.
C33_OriginReadOnly ==
    [][/\ github' = github
       /\ Len(calls') > Len(calls) =>
              LET call == calls'[Len(calls')]
              IN  /\ call.host \in {"github", "gitee"}
                  /\ call.host = "github" <=> call.op \in {"list_github", "download"}]_vars

\* in its second run the program has listed the origin, downloaded from it,
\* and created, uploaded to and deleted on the mirror in the runs so far
C33_Witness ==
    /\ pass = MaxPass
    /\ pc = "done"
    /\ \E i \in CallsOf({"download"}) : calls[i].ok /\ calls[i].host = "github"
    /\ \A op \in {"create", "upload", "delete"} :
          \E i \in 1..Len(calls) :
              calls[i].op = op /\ calls[i].ok /\ calls[i].host = "gitee"

\* the tags of the origin releases the filter selected
SelectedTags == Range(get_tags(github_releases))

\* C34: Frame of the reconciliation step.  A step of a pass before its pruner
\* keeps every mirror release and every asset of it, leaves a mirror release
\* whose tag_name is not the tag_name of a selected origin release as it is,
\* and issues a create, update or upload only for the tag_name of a selected
\* origin release.
C34_ReconciliationFrame ==
    [][(pc \in {"sync", "diff", "download", "upload"}) =>
          /\ \A i \in 1..Len(gitee) :
                \E j \in 1..Len(gitee') :
                    /\ gitee'[j].id = gitee[i].id
                    /\ Range(gitee[i].assets) \subseteq Range(gitee'[j].assets)
                    /\ gitee[i].tag_name \notin SelectedTags => gitee'[j] = gitee[i]
          /\ Len(calls') > Len(calls) =>
                LET call == calls'[Len(calls')]
                IN  /\ call.op # "delete"
                    /\ call.op \in {"create", "update", "upload"} =>
                           call.tag \in SelectedTags]_vars

\* the pruner is about to run: the pass has updated a mirror release that has
\* an asset and sent another asset to it, and the asset is still there
C34_Witness ==
    /\ pc = "clean"
    /\ \E u \in CallsOf({"update"}) :
          /\ calls[u].ok
          /\ \E j \in 1..Len(gitee0) :
                /\ gitee0[j].id = calls[u].id
                /\ gitee0[j].assets # <<>>
                /\ \E n \in 1..Len(gitee) :
                      /\ gitee[n].id = calls[u].id
                      /\ Range(gitee0[j].assets) \subseteq Range(gitee[n].assets)
                      /\ Len(gitee[n].assets) > Len(gitee0[j].assets)

\* C35: Staged file present at upload.  Whenever the upload loop is at an
\* asset, a staged file exists for every asset of the diff, and no asset of a
\* diff is passed over without an upload call.
C35_StagedAtUpload ==
    /\ pc = "upload" =>
          \A j \in 1..Len(diff_asserts) :
              exists(fs, file_path(cli, current_release, diff_asserts[j]))
    /\ (pc = "done" /\ result = "ok") =>
          \A i \in CallsOf({"download"}) :
              TransfersOf({"upload"}, calls[i].tag, calls[i].asset) # {}

\* the upload loop is at the second of two assets, one found staged and one
\* downloaded in this pass
C35_Witness ==
    /\ pc = "upload"
    /\ Len(diff_asserts) = 2
    /\ k = 2
    /\ \E a, b \in 1..2 :
          /\ StagedWhole(current_release, diff_asserts[a])
          /\ ~DownloadCalled(current_release, diff_asserts[a])
          /\ DownloadCalled(current_release, diff_asserts[b])
    /\ TransfersOf({"upload"}, current_release.tag_name, diff_asserts[1].name) # {}

\* C36: No self-pruning.  No delete of a pass removes a mirror release the
\* pass has created or updated (stated for a retain count that is at least
\* the fetch count, and a fetch count of at least 1).
C36_NoSelfPruning ==
    (/\ cli.github_latest_release_count >= 1
     /\ cli.gitee_retain_release_count >= cli.github_latest_release_count) =>
        \A d \in CallsOf({"delete"}) :
            \A w \in CallsOf({"create", "update"}) :
                (calls[d].ok /\ calls[w].ok) => calls[d].id # calls[w].id

\* the asset of that name of the origin release of that tag
AssetOf(tag, name) ==
    LET release == OriginOf(tag)
    IN  release.assets[CHOOSE j \in 1..Len(release.assets) :
                           release.assets[j].name = name]

\* what a completed download of the asset leaves in the staging area
Completed(asset) ==
    IF cli.latest_json_url_replace /\ asset.name = LATEST_JSON
    THEN Replace(remote_body(asset.browser_download_url), GithubBase(cli),
                 GiteeBase(cli))
    ELSE remote_body(asset.browser_download_url)

\* C37: No partial file is uploaded.  In every pass, every upload follows a
\* successful download of its asset in the same pass or is of a staged file
\* that had the declared size when the pass started, and the staged file it
\* sends is what the completed download left or has the declared size.
C37_NoPartialUpload ==
    \A u \in CallsOf({"upload"}) :
        LET asset == AssetOf(calls[u].tag, calls[u].asset)
            path == <<cli.github_repo, calls[u].tag, calls[u].asset>>
        IN  /\ \/ \E d \in TransfersOf({"download"}, calls[u].tag, calls[u].asset) :
                     d < u /\ calls[d].ok
               \/ StagedWhole(OriginOf(calls[u].tag), asset)
            /\ path \in DOMAIN fs
            /\ \/ fs[path] = Completed(asset)
               \/ is_some(asset.size) /\ file_len(fs[path]) = unwrap(asset.size)

\* the second run has sent a file whose download the first run left
\* incomplete; it had downloaded the file again
C37_Witness ==
    /\ pass = 2
    /\ \E i \in 1..Len(calls) :
          /\ calls[i].pass = 1
          /\ calls[i].op = "download"
          /\ ~calls[i].ok
          /\ LET path == <<cli.github_repo, calls[i].tag, calls[i].asset>>
             IN  /\ path \in DOMAIN fs0
                 /\ fs0[path] # Completed(AssetOf(calls[i].tag, calls[i].asset))
                 /\ fs[path] = Completed(AssetOf(calls[i].tag, calls[i].asset))
          /\ \E u \in TransfersOf({"upload"}, calls[i].tag, calls[i].asset) :
                calls[u].ok

=============================================================================
